---- MODULE Spec2Model ----
(***************************************************************************)
(* Model of main.py: the parallel numeric password search over a RAR       *)
(* archive.  create_password_chunks splits [0, max_password] into one      *)
(* chunk per pool process, test_password_chunk probes the candidates of a  *)
(* chunk in ascending order, and brute_force_rar_password collects the     *)
(* chunk results in chunk order (Pool.imap), confirms a probe-accepted     *)
(* candidate with extract_rar_file and reports the outcome.                *)
(*                                                                         *)
(* A password is a sequence of decimal digits.  The archive oracle (the    *)
(* rarfile library) is two sets of passwords: those the probe read         *)
(* accepts and those the full extraction accepts.                          *)
(***************************************************************************)
EXTENDS Integers, Sequences, FiniteSets, TLC

VARIABLES
    argv_len,       \* len(sys.argv) of main
    path_exists,    \* os.path.exists(rar_path)
    archive_valid,  \* rarfile.RarFile(rar_path) opens the file
    exit_code,      \* exit status of the process, -1 while it runs
    outputDir,      \* the extraction directory: "absent", "empty", "partial", "complete"
    sessionPw,      \* per task: password set on the session of the last probe read
    max_digits,     \* argument of brute_force_rar_password
    num_processes,  \* argument of brute_force_rar_password / create_password_chunks
    probeOK,        \* oracle: passwords whose probe read raises nothing
    extractOK,      \* oracle: passwords whose extractall raises nothing
    max_password,   \* inclusive upper bound of the search space
    chunks,         \* result of create_password_chunks: <<start, end, id>>
    worker_args,    \* <<rar_path, start, end, chunk_id>> per task
    pc,             \* position of the coordinator
    taskState,      \* per task: "running", "returned", "terminated"
    num,            \* per task: loop variable of test_password_chunk
    password,       \* per task: the last candidate string rendered
    taskResult,     \* per task: value returned by test_password_chunk
    probeCount,     \* per candidate number: probes performed on it
    idx,            \* number of results the coordinator has taken from imap
    result,         \* the probe-accepted candidate under confirmation
    extractCalls,   \* log of extract_rar_file calls: <<password, ok>>
    outcome,        \* "Running", "Found", "Exhausted", "Cancelled"
    returned,       \* return value of brute_force_rar_password
    late            \* per running task: probes completed since the interrupt
                    \* arrived or a task reported an accept, whichever came first

vars == <<argv_len, path_exists, archive_valid, exit_code, outputDir, sessionPw,
          max_digits, num_processes, probeOK, extractOK, max_password, chunks,
          worker_args, pc, taskState, num, password, taskResult, probeCount,
          idx, result, extractCalls, outcome, returned, late>>

----------------------------------------------------------------------------
(* Bounds of the model. *)

\* largest max_password given to create_password_chunks on its own
MaxPassword == 9
\* largest num_processes given to create_password_chunks on its own
MaxWorkerCount == 11
\* largest num_processes of a whole run
MaxProcs == 3
\* largest number of candidates the oracle's probe accepts
MaxAccepted == 2

\* max_digits of a whole run: 10 ** 0 - 1 = 0 and 10 ** 1 - 1 = 9
DigitChoices == {0, 1}
\* len(sys.argv): no argument, one argument, two arguments
ArgvChoices == {1, 2, 3}

(* Program constants. *)

\* str(num).zfill(8)
PadWidth == 8
\* 10 ** max_digits
Base == 10

\* Python's None; no rendered candidate equals it
None == <<-1>>
RarPath == "archive.rar"

----------------------------------------------------------------------------
(* Candidate Generator: str(num).zfill(8). *)

RECURSIVE Str(_)
Str(n) == IF n < Base THEN <<n>> ELSE Str(n \div Base) \o <<n % Base>>

Zfill(s, width) ==
    IF Len(s) >= width THEN s
    ELSE [k \in 1..(width - Len(s)) |-> 0] \o s

Render(n) == Zfill(Str(n), PadWidth)

RECURSIVE ParseInt(_)
ParseInt(s) ==
    IF Len(s) = 0 THEN 0
    ELSE ParseInt(SubSeq(s, 1, Len(s) - 1)) * Base + s[Len(s)]

RECURSIVE Pow(_, _)
Pow(b, e) == IF e = 0 THEN 1 ELSE b * Pow(b, e - 1)

MaxPasswordOf(digits) == Pow(Base, digits) - 1

----------------------------------------------------------------------------
(* Chunk Partitioner. *)

ChunkSize(max, n) == max \div n

create_password_chunks_no_remainder(max, n) ==
    [k \in 1..n |->
        LET i == k - 1
            start == i * ChunkSize(max, n)
        IN  <<start, start + ChunkSize(max, n) - 1, i>>]

create_password_chunks(max, n) ==
    [k \in 1..n |->
        LET i == k - 1
            start == i * ChunkSize(max, n)
            end == IF i = n - 1 THEN max ELSE start + ChunkSize(max, n) - 1
        IN  <<start, end, i>>]

BuildArgs(cs) == [k \in 1..Len(cs) |-> <<RarPath, cs[k][1], cs[k][2], cs[k][3]>>]

\* the tasks handed to the pool, one per element of worker_args
Tasks == DOMAIN taskState
StartOf(i) == worker_args[i][2]
EndOf(i) == worker_args[i][3]

----------------------------------------------------------------------------
(* Archive Oracle and Confirmation stage. *)

\* The passwords test_password_chunk can render for the space [0, max].
Candidates(max) == {Render(n) : n \in 0..max}

\* rf.setpassword(password); rf.infolist(); rf.read(...) raises nothing
ProbeAccepts(pw) == pw \in probeOK

extract_rar_file_ignores_failure(rar_path, pw) == TRUE

\* True iff makedirs, the test read and extractall raise nothing
extract_rar_file(rar_path, pw) == pw \in extractOK

----------------------------------------------------------------------------
(* Worker: test_password_chunk. *)

InRangeExclusive(n, end) == n < end

\* for num in range(start_num, end_num + 1)
InRange(n, end) == n <= end

\* Ghost tally of the probes a task completes after an event: "none", "one"
\* or "more" than one.
Bump(c) == IF c = "none" THEN "one" ELSE "more"

NoneLate == [i \in 1..Len(worker_args) |-> "none"]

SomeAccepted == \E j \in Tasks : taskState[j] = "returned" /\ taskResult[j] # None

\* Ghost bookkeeping of one completed probe by task i.
CountProbe(i) ==
    /\ probeCount' = [probeCount EXCEPT ![num[i]] = @ + 1]
    /\ late' = IF pc = "interrupted" \/ SomeAccepted
               THEN [late EXCEPT ![i] = Bump(@)] ELSE late

SessionPasswordKept(old, pw) == IF old = None THEN pw ELSE old

\* with rarfile.RarFile(rar_path) as rf: rf.setpassword(password)
\* a session opened for this candidate, holding this candidate's password
SessionPassword(old, pw) == pw

\* how the probes of a readable archive fail, by candidate number
FailureKinds == <<"RarWrongPassword", "BadRarFile", "Exception", "NoFiles">>

\* What a failing probe through a session holding pw meets: the open raises
\* NotRarFile when the file is no archive; otherwise the read raises
\* RarWrongPassword, BadRarFile or another exception, or infolist() is empty.
ProbeFailure(pw) ==
    IF ~archive_valid THEN "NotRarFile"
    ELSE FailureKinds[(ParseInt(pw) % Len(FailureKinds)) + 1]

CaughtExpectedOnly(kind) == kind \in {"NoFiles", "RarWrongPassword", "BadRarFile"}

\* if not file_list: continue; except RarWrongPassword / BadRarFile /
\* Exception: continue
Caught(kind) ==
    \/ kind = "NoFiles"
    \/ kind = "RarWrongPassword"
    \/ kind = "BadRarFile"
    \/ kind \in {"NotRarFile", "Exception"}

\* One iteration whose probe raises (or finds no entries): continue.  An
\* exception the inner try did not catch would reach the outer except
\* Exception: print "Error in chunk", return None.
ProbeRejected(i) ==
    /\ taskState[i] = "running"
    /\ InRange(num[i], EndOf(i))
    /\ ~ProbeAccepts(SessionPassword(sessionPw[i], Render(num[i])))
    /\ password' = [password EXCEPT ![i] = Render(num[i])]
    /\ sessionPw' = [sessionPw EXCEPT ![i] = SessionPassword(@, Render(num[i]))]
    /\ num' = [num EXCEPT ![i] = @ + 1]
    /\ IF Caught(ProbeFailure(SessionPassword(sessionPw[i], Render(num[i]))))
       THEN UNCHANGED <<taskState, taskResult>>
       ELSE /\ taskState' = [taskState EXCEPT ![i] = "returned"]
            /\ taskResult' = [taskResult EXCEPT ![i] = None]
    /\ CountProbe(i)
    /\ UNCHANGED <<argv_len, path_exists, archive_valid, max_digits, num_processes, probeOK, extractOK, max_password,
                   chunks, worker_args, pc, idx, result, extractCalls, outcome,
                   returned>>
    /\ UNCHANGED <<exit_code, outputDir>>

\* One iteration whose probe read succeeds: return password.
ProbeAccepted(i) ==
    /\ taskState[i] = "running"
    /\ InRange(num[i], EndOf(i))
    /\ ProbeAccepts(SessionPassword(sessionPw[i], Render(num[i])))
    /\ password' = [password EXCEPT ![i] = Render(num[i])]
    /\ sessionPw' = [sessionPw EXCEPT ![i] = SessionPassword(@, Render(num[i]))]
    /\ taskState' = [taskState EXCEPT ![i] = "returned"]
    /\ taskResult' = [taskResult EXCEPT ![i] = Render(num[i])]
    /\ CountProbe(i)
    /\ UNCHANGED <<argv_len, path_exists, archive_valid, max_digits, num_processes, probeOK, extractOK, max_password,
                   chunks, worker_args, pc, num, idx, result, extractCalls,
                   outcome, returned>>
    /\ UNCHANGED <<exit_code, outputDir>>

\* The range is used up: return None.
ReturnNone(i) ==
    /\ taskState[i] = "running"
    /\ ~InRange(num[i], EndOf(i))
    /\ taskState' = [taskState EXCEPT ![i] = "returned"]
    /\ taskResult' = [taskResult EXCEPT ![i] = None]
    /\ UNCHANGED <<argv_len, path_exists, archive_valid, max_digits, num_processes, probeOK, extractOK, max_password,
                   chunks, worker_args, pc, num, password, probeCount, idx,
                   result, extractCalls, outcome, returned, late>>
    /\ UNCHANGED <<exit_code, outputDir, sessionPw>>

----------------------------------------------------------------------------
(* Coordinator: brute_force_rar_password. *)

TerminateSkipped(ts) == ts

\* pool.terminate(); pool.join(): no pool process runs afterwards
Terminated(ts) == [i \in DOMAIN ts |-> IF ts[i] = "running" THEN "terminated" ELSE ts[i]]

\* main: len(sys.argv) != 2: usage message, sys.exit(1)
MainUsage ==
    /\ pc = "main"
    /\ argv_len # 2
    /\ exit_code' = 1
    /\ pc' = "exited"
    /\ UNCHANGED <<argv_len, path_exists, archive_valid, outputDir, sessionPw,
                   max_digits, num_processes, probeOK, extractOK, max_password,
                   chunks, worker_args, taskState, num, password, taskResult,
                   probeCount, idx, result, extractCalls, outcome, returned,
                   late>>

\* main: password = brute_force_rar_password(rar_file_path, ...)
MainCall ==
    /\ pc = "main"
    /\ argv_len = 2
    /\ pc' = "idle"
    /\ UNCHANGED <<argv_len, path_exists, archive_valid, exit_code, outputDir,
                   sessionPw, max_digits, num_processes, probeOK, extractOK,
                   max_password, chunks, worker_args, taskState, num, password,
                   taskResult, probeCount, idx, result, extractCalls, outcome,
                   returned, late>>

\* if not os.path.exists(rar_path): print "RAR file not found"; return None
StartNoFile ==
    /\ pc = "idle"
    /\ ~path_exists
    /\ returned' = None
    /\ pc' = "no_file"
    /\ UNCHANGED <<argv_len, path_exists, archive_valid, exit_code, outputDir,
                   sessionPw, max_digits, num_processes, probeOK, extractOK,
                   max_password, chunks, worker_args, taskState, num, password,
                   taskResult, probeCount, idx, result, extractCalls, outcome,
                   late>>

\* main: the status is printed and main returns: exit status 0
MainExit ==
    /\ pc \in {"done", "no_file"}
    /\ exit_code' = 0
    /\ pc' = "exited"
    /\ UNCHANGED <<argv_len, path_exists, archive_valid, outputDir, sessionPw,
                   max_digits, num_processes, probeOK, extractOK, max_password,
                   chunks, worker_args, taskState, num, password, taskResult,
                   probeCount, idx, result, extractCalls, outcome, returned,
                   late>>

\* max_password = 10 ** max_digits - 1
Start ==
    /\ pc = "idle"
    /\ path_exists
    /\ max_password' = MaxPasswordOf(max_digits)
    /\ pc' = "chunks_call"
    /\ UNCHANGED <<argv_len, path_exists, archive_valid, max_digits, num_processes, probeOK, extractOK, chunks,
                   worker_args, taskState, num, password, taskResult,
                   probeCount, idx, result, extractCalls, outcome, returned,
                   late>>
    /\ UNCHANGED <<exit_code, outputDir, sessionPw>>

\* chunks = create_password_chunks(max_password, num_processes)
CallCreateChunks ==
    /\ pc = "chunks_call"
    /\ chunks' = create_password_chunks(max_password, num_processes)
    /\ pc' = "chunks_made"
    /\ UNCHANGED <<argv_len, path_exists, archive_valid, max_digits, num_processes, probeOK, extractOK, max_password,
                   worker_args, taskState, num, password, taskResult,
                   probeCount, idx, result, extractCalls, outcome, returned,
                   late>>
    /\ UNCHANGED <<exit_code, outputDir, sessionPw>>

\* worker_args = [(rar_path, start, end, chunk_id) for ... in chunks]
BuildWorkerArgs ==
    /\ pc = "chunks_made"
    /\ worker_args' = BuildArgs(chunks)
    /\ pc' = "args_built"
    /\ UNCHANGED <<argv_len, path_exists, archive_valid, max_digits, num_processes, probeOK, extractOK, max_password,
                   chunks, taskState, num, password, taskResult, probeCount,
                   idx, result, extractCalls, outcome, returned, late>>
    /\ UNCHANGED <<exit_code, outputDir, sessionPw>>

\* with mp.Pool(...) as pool: results = pool.imap(test_password_chunk, worker_args)
PoolStart ==
    /\ pc = "args_built"
    /\ outcome = "Running"
    /\ taskState' = [i \in 1..Len(worker_args) |-> "running"]
    /\ num' = [i \in 1..Len(worker_args) |-> StartOf(i)]
    /\ password' = [i \in 1..Len(worker_args) |-> None]
    /\ sessionPw' = [i \in 1..Len(worker_args) |-> None]
    /\ taskResult' = [i \in 1..Len(worker_args) |-> None]
    /\ probeCount' = [n \in 0..max_password |-> 0]
    /\ late' = NoneLate
    /\ idx' = 0
    /\ pc' = "collect"
    /\ UNCHANGED <<argv_len, path_exists, archive_valid, max_digits, num_processes, probeOK, extractOK, max_password,
                   chunks, worker_args, result, extractCalls, outcome, returned>>
    /\ UNCHANGED <<exit_code, outputDir>>

NextTaskUnordered ==
    IF \E j \in Tasks : j > idx /\ taskState[j] = "returned" /\ taskResult[j] # None
    THEN CHOOSE j \in Tasks :
            /\ j > idx /\ taskState[j] = "returned" /\ taskResult[j] # None
            /\ \A k \in Tasks :
                  (k > idx /\ taskState[k] = "returned" /\ taskResult[k] # None)
                      => k <= j
    ELSE idx + 1

\* pool.imap: the next result is the one of the next task in submission order
NextTask == idx + 1

\* for result in results: result is None
CollectNone ==
    /\ pc = "collect"
    /\ idx < Len(worker_args)
    /\ taskState[NextTask] = "returned"
    /\ taskResult[NextTask] = None
    /\ idx' = idx + 1
    /\ UNCHANGED <<argv_len, path_exists, archive_valid, max_digits, num_processes, probeOK, extractOK, max_password,
                   chunks, worker_args, pc, taskState, num, password,
                   taskResult, probeCount, result, extractCalls, outcome,
                   returned, late>>
    /\ UNCHANGED <<exit_code, outputDir, sessionPw>>

\* for result in results: result is not None; pool.terminate(); pool.join()
CollectFound ==
    /\ pc = "collect"
    /\ idx < Len(worker_args)
    /\ taskState[NextTask] = "returned"
    /\ taskResult[NextTask] # None
    /\ result' = taskResult[NextTask]
    /\ taskState' = Terminated(taskState)
    /\ late' = NoneLate
    /\ pc' = "confirm"
    /\ UNCHANGED <<argv_len, path_exists, archive_valid, max_digits, num_processes, probeOK, extractOK, max_password,
                   chunks, worker_args, num, password, taskResult, probeCount,
                   idx, extractCalls, outcome, returned>>
    /\ UNCHANGED <<exit_code, outputDir, sessionPw>>

\* if extract_rar_file(rar_path, result): return result
ConfirmPass ==
    /\ pc = "confirm"
    /\ extract_rar_file(RarPath, result)
    /\ extractCalls' = Append(extractCalls, <<result, TRUE>>)
    /\ outputDir' = "complete"
    /\ outcome' = "Found"
    /\ returned' = result
    /\ pc' = "done"
    /\ UNCHANGED <<argv_len, path_exists, archive_valid, max_digits, num_processes, probeOK, extractOK, max_password,
                   chunks, worker_args, taskState, num, password, taskResult,
                   probeCount, idx, result, late>>
    /\ UNCHANGED <<exit_code, sessionPw>>

\* What a failed extract_rar_file leaves behind: os.makedirs has run, and the
\* exception comes from the test read (the directory is empty) or from
\* extractall (some entries may be written); no handler removes anything.
FailedOutputs == {"empty", "partial"}

ConfirmFailRetries ==
    /\ pc = "confirm"
    /\ ~extract_rar_file(RarPath, result)
    /\ extractCalls' = Append(extractCalls, <<result, FALSE>>)
    /\ outputDir' \in FailedOutputs
    /\ UNCHANGED <<argv_len, path_exists, archive_valid, max_digits,
                   num_processes, probeOK, extractOK, max_password, chunks,
                   worker_args, pc, taskState, num, password, taskResult,
                   probeCount, idx, result, late, outcome, returned, exit_code,
                   sessionPw>>

\* else: break; then "Password not found after testing ..."; return None
ConfirmFail ==
    /\ pc = "confirm"
    /\ ~extract_rar_file(RarPath, result)
    /\ extractCalls' = Append(extractCalls, <<result, FALSE>>)
    /\ outputDir' \in FailedOutputs
    /\ outcome' = "Exhausted"
    /\ returned' = None
    /\ pc' = "done"
    /\ UNCHANGED <<argv_len, path_exists, archive_valid, max_digits, num_processes, probeOK, extractOK, max_password,
                   chunks, worker_args, taskState, num, password, taskResult,
                   probeCount, idx, result, late>>
    /\ UNCHANGED <<exit_code, sessionPw>>

\* the results iterator is used up: "Password not found after testing ..."
LoopExhausted ==
    /\ pc = "collect"
    /\ idx = Len(worker_args)
    /\ taskState' = Terminated(taskState)
    /\ late' = NoneLate
    /\ outcome' = "Exhausted"
    /\ returned' = None
    /\ pc' = "done"
    /\ UNCHANGED <<argv_len, path_exists, archive_valid, max_digits, num_processes, probeOK, extractOK, max_password,
                   chunks, worker_args, num, password, taskResult, probeCount,
                   idx, result, extractCalls>>
    /\ UNCHANGED <<exit_code, outputDir, sessionPw>>

\* SIGINT reaches the coordinator inside the try block
Interrupt ==
    /\ pc \in {"collect", "confirm"}
    /\ pc' = "interrupted"
    /\ UNCHANGED <<argv_len, path_exists, archive_valid, max_digits, num_processes, probeOK, extractOK, max_password,
                   chunks, worker_args, taskState, num, password, taskResult,
                   probeCount, idx, result, extractCalls, outcome, returned,
                   late>>
    /\ UNCHANGED <<exit_code, outputDir, sessionPw>>

\* KeyboardInterrupt leaves the with block (Pool.__exit__ terminates the
\* pool) and reaches except KeyboardInterrupt: return None
HandleInterrupt ==
    /\ pc = "interrupted"
    /\ taskState' = Terminated(taskState)
    /\ late' = NoneLate
    /\ outcome' = "Cancelled"
    /\ returned' = None
    /\ pc' = "done"
    /\ UNCHANGED <<argv_len, path_exists, archive_valid, max_digits, num_processes, probeOK, extractOK, max_password,
                   chunks, worker_args, num, password, taskResult, probeCount,
                   idx, result, extractCalls>>
    /\ UNCHANGED <<exit_code, outputDir, sessionPw>>

----------------------------------------------------------------------------
(* Specifications. *)

\* The oracles of a run: the probe accepts at most MaxAccepted of the
\* candidates, and the extraction at most one of those.
Oracles(max) ==
    UNION {{[probe |-> p, extract |-> e] :
                e \in {x \in SUBSET p : Cardinality(x) <= 1}} :
           p \in {q \in SUBSET Candidates(max) : Cardinality(q) <= MaxAccepted}}

Unset ==
    /\ chunks = <<>>
    /\ worker_args = <<>>
    /\ taskState = <<>>
    /\ num = <<>>
    /\ password = <<>>
    /\ taskResult = <<>>
    /\ probeCount = <<>>
    /\ idx = 0
    /\ result = None
    /\ extractCalls = <<>>
    /\ outcome = "Running"
    /\ returned = None
    /\ late = <<>>
    /\ exit_code = -1
    /\ outputDir = "absent"
    /\ sessionPw = <<>>

\* A call of brute_force_rar_password(rar_path, max_digits, num_processes).
Init ==
    /\ argv_len \in ArgvChoices
    /\ path_exists \in BOOLEAN
    /\ archive_valid \in BOOLEAN
    /\ max_digits \in DigitChoices
    /\ num_processes \in 1..MaxProcs
    /\ \E o \in Oracles(MaxPasswordOf(max_digits)) :
          probeOK = o.probe /\ extractOK = o.extract
    /\ ~archive_valid => probeOK = {}
    /\ max_password = 0
    /\ pc = "main"
    /\ Unset

Next ==
    \/ MainUsage
    \/ MainCall
    \/ StartNoFile
    \/ MainExit
    \/ Start
    \/ CallCreateChunks
    \/ BuildWorkerArgs
    \/ PoolStart
    \/ \E i \in Tasks : ProbeRejected(i)
    \/ \E i \in Tasks : ProbeAccepted(i)
    \/ \E i \in Tasks : ReturnNone(i)
    \/ CollectNone
    \/ CollectFound
    \/ ConfirmPass
    \/ ConfirmFail
    \/ LoopExhausted
    \/ Interrupt
    \/ HandleInterrupt

Spec == Init /\ [][Next]_vars

\* A call of main with one argument, an existing file and an oracle whose
\* probe accepts no candidate.
InitNoneAccepted ==
    /\ Init
    /\ argv_len = 2
    /\ path_exists
    /\ probeOK = {}

\* the steps of the pool process running task i when no probe accepts
WorkerStep(i) == i \in Tasks /\ (ProbeRejected(i) \/ ReturnNone(i))

\* the steps of the main process when every result is None and no interrupt
\* arrives
CoordinatorStep ==
    \/ MainCall
    \/ Start
    \/ CallCreateChunks
    \/ BuildWorkerArgs
    \/ PoolStart
    \/ CollectNone
    \/ LoopExhausted
    \/ MainExit

NextNoneAccepted ==
    \/ CoordinatorStep
    \/ \E i \in Tasks : WorkerStep(i)

\* The runs in which nothing is accepted and no interrupt arrives; the
\* operating system schedules every process that can take a step.
FairSpec ==
    /\ InitNoneAccepted
    /\ [][NextNoneAccepted]_vars
    /\ WF_vars(CoordinatorStep)
    /\ \A i \in 1..MaxProcs : WF_vars(WorkerStep(i))

\* A call of create_password_chunks(max_password, num_processes) on its own,
\* followed by the construction of worker_args.
InitChunks ==
    /\ argv_len = 2
    /\ path_exists = TRUE
    /\ archive_valid = TRUE
    /\ max_digits = 0
    /\ num_processes \in 1..MaxWorkerCount
    /\ max_password \in 0..MaxPassword
    /\ probeOK = {}
    /\ extractOK = {}
    /\ pc = "chunks_call"
    /\ Unset

NextChunks == CallCreateChunks \/ BuildWorkerArgs

SpecChunks == InitChunks /\ [][NextChunks]_vars

----------------------------------------------------------------------------
(* Properties of the Chunk Partitioner, under SpecChunks. *)

ChunksMade == pc \in {"chunks_made", "args_built"}

\* chunk c = <<start, end, id>> covers the integer v
Covers(c, v) == c[1] <= v /\ v <= c[2]

\* C1: for every max_password >= 0 and num_processes >= 1 the chunks are
\* sorted by start ascending, every integer of [0, max_password] lies in the
\* range of exactly one chunk, and a chunk that covers anything lies inside
\* [0, max_password].
C1_ChunksPartition ==
    ChunksMade =>
        /\ \A k \in 1..(Len(chunks) - 1) : chunks[k][1] <= chunks[k + 1][1]
        /\ \A v \in 0..max_password :
              Cardinality({k \in DOMAIN chunks : Covers(chunks[k], v)}) = 1
        /\ \A k \in DOMAIN chunks :
              chunks[k][1] <= chunks[k][2] =>
                  chunks[k][1] >= 0 /\ chunks[k][2] <= max_password

\* Chunks were made for a space the process count does not divide: the last
\* chunk is longer than the others.
C1_Witness ==
    /\ ChunksMade
    /\ Len(chunks) >= 3
    /\ ChunkSize(max_password, num_processes) >= 2
    /\ max_password % num_processes # 0
    /\ chunks[Len(chunks)][2] - chunks[Len(chunks)][1] > chunks[1][2] - chunks[1][1]

\* C2: when num_processes > max_password + 1, no chunk with start > end is
\* handed to a worker through worker_args, and every candidate of
\* 0..max_password is covered by exactly one element of worker_args.
C2_NoInvertedChunkHandedOut ==
    (pc = "args_built" /\ num_processes > max_password + 1) =>
        /\ \A k \in DOMAIN worker_args : worker_args[k][2] <= worker_args[k][3]
        /\ \A v \in 0..max_password :
              Cardinality({k \in DOMAIN worker_args :
                              worker_args[k][2] <= v /\ v <= worker_args[k][3]}) = 1

\* chunk_size as section 4.2 of the specification states it
StatedChunkSize(max, n) == (max + 1) \div n

\* C3: exactly num_processes chunks, with
\* chunk_size = floor((max_password + 1) / num_processes): chunk i is
\* [i * chunk_size, (i + 1) * chunk_size - 1] for i < num_processes - 1 and
\* the last chunk runs from (num_processes - 1) * chunk_size to max_password.
C3_ChunksByStatedSize ==
    ChunksMade =>
        /\ Len(chunks) = num_processes
        /\ \A k \in DOMAIN chunks :
              LET i == k - 1
                  size == StatedChunkSize(max_password, num_processes)
              IN  /\ chunks[k][1] = i * size
                  /\ chunks[k][2] = IF i = num_processes - 1
                                    THEN max_password
                                    ELSE (i + 1) * size - 1

----------------------------------------------------------------------------
(* Properties of a whole run, under Spec. *)

\* C4: every candidate string a worker renders in a run with width
\* max_digits >= 1 has exactly max_digits characters, is its number in
\* decimal left-padded with 0 to that width, and parses back to a number of
\* the worker's chunk.
C4_RenderedWidth ==
    \A i \in Tasks :
        (max_digits >= 1 /\ password[i] # None) =>
            /\ Len(password[i]) = max_digits
            /\ password[i] = Zfill(Str(ParseInt(password[i])), max_digits)
            /\ ParseInt(password[i]) \in StartOf(i)..EndOf(i)

\* the oracle accepts exactly one candidate, in the probe and in the extraction
UniqueAccepted == Cardinality(probeOK) = 1 /\ extractOK = probeOK

\* C5: with an oracle that accepts exactly one candidate c and no
\* cancellation, whatever the interleaving of the workers, a finished run has
\* outcome Found and returns c.
C5_UniqueAcceptedIsFound ==
    (pc = "done" /\ UniqueAccepted /\ outcome # "Cancelled") =>
        /\ outcome = "Found"
        /\ probeOK = {returned}

\* A run over three chunks found the only accepted candidate in a chunk other
\* than the first, while another worker was still running.
C5_Witness ==
    /\ pc = "done"
    /\ UniqueAccepted
    /\ outcome = "Found"
    /\ probeOK = {returned}
    /\ Len(worker_args) = 3
    /\ \E i \in Tasks : i > 1 /\ taskResult[i] = returned
    /\ \E j \in Tasks : taskState[j] = "terminated"

ConfirmationFailed == \E k \in DOMAIN extractCalls : ~extractCalls[k][2]

\* C6: after a failed confirmation the search resumes: a finished,
\* uncancelled run either returns a probe-accepted and confirmed candidate,
\* or reports Exhausted having probed every candidate of the space, every
\* probe-accepted candidate having been rejected by the confirmation.
C6_FalsePositiveResumes ==
    (pc = "done" /\ outcome # "Cancelled" /\ ConfirmationFailed) =>
        \/ outcome = "Found" /\ returned \in extractOK
        \/ /\ outcome = "Exhausted"
           /\ \A n \in 0..max_password : probeCount[n] >= 1
           /\ \A pw \in probeOK :
                 \E k \in DOMAIN extractCalls : extractCalls[k] = <<pw, FALSE>>

\* C7: after the interrupt arrives each worker completes at most one further
\* probe, and Cancelled is reported only when no worker is running.  (In a
\* run where no task has reported an accept, late counts the probes since
\* the interrupt.)
C7_CancelWithinOneProbe ==
    /\ \A i \in Tasks :
          (pc = "interrupted" /\ ~SomeAccepted) => late[i] # "more"
    /\ outcome = "Cancelled" => \A i \in Tasks : taskState[i] # "running"

\* C8: a run returns a password only with outcome Found, and then the
\* password was returned by a worker whose probe accepted it and the full
\* extraction with it succeeded.
C8_FoundOnlyIfConfirmed ==
    /\ returned # None => outcome = "Found"
    /\ outcome = "Found" =>
          /\ returned # None
          /\ ProbeAccepts(returned)
          /\ \E i \in Tasks : taskResult[i] = returned
          /\ returned \in extractOK
          /\ extractCalls = <<(<<returned, TRUE>>)>>

\* A run whose oracle also has a false positive ended in Found.
C8_Witness ==
    /\ outcome = "Found"
    /\ returned \in extractOK
    /\ \E pw \in probeOK : pw \notin extractOK

\* the coordinator waits in imap for the result of a chunk still being probed
CoordinatorBlocked ==
    pc = "collect" /\ idx < Len(worker_args) /\ taskState[idx + 1] = "running"

\* C9: once a worker has reported an accepted candidate, no other worker
\* completes more than the probe it is in, even while a chunk with a lower
\* index is unfinished.  (With no interrupt, late counts the probes since
\* the accept; while the coordinator is blocked, every reported accept
\* belongs to a chunk it has not reached.)
C9_AcceptStopsOthers ==
    \A i \in Tasks :
        (CoordinatorBlocked /\ SomeAccepted) => late[i] # "more"

\* C10: the run reports Exhausted only when every task returned None after
\* using up its range, no candidate having been probe-accepted.
C10_ExhaustedMeansAllRejected ==
    outcome = "Exhausted" =>
        /\ \A i \in Tasks :
              /\ taskState[i] = "returned"
              /\ taskResult[i] = None
              /\ ~InRange(num[i], EndOf(i))
        /\ extractCalls = <<>>

\* the probe-accepted candidate with the smallest number
SmallestAccepted ==
    CHOOSE pw \in probeOK : \A q \in probeOK : ParseInt(pw) <= ParseInt(q)

\* C11: whatever the interleaving of the workers, the candidate handed to
\* the confirmation is the numerically smallest probe-accepted candidate of
\* the space, the one of the accepting chunk with the lowest start.
C11_LowestChunkWins ==
    /\ pc = "confirm" => result = SmallestAccepted
    /\ \A k \in DOMAIN extractCalls : extractCalls[k][1] = SmallestAccepted

\* Two chunks each returned an accepted candidate and the one of the lower
\* chunk is under confirmation.
C11_Witness ==
    /\ pc = "confirm"
    /\ \E i, j \in Tasks :
          /\ i < j
          /\ taskResult[i] # None
          /\ taskResult[j] # None
          /\ result = taskResult[i]
          /\ ParseInt(taskResult[i]) < ParseInt(taskResult[j])

\* C12: the process exits with 1 when the argument is missing or the path
\* does not exist and with 0 otherwise, and a missing path launches no worker
\* and makes no probe.
C12_ExitCodes ==
    pc = "exited" =>
        /\ exit_code = IF argv_len # 2 \/ ~path_exists THEN 1 ELSE 0
        /\ ~path_exists => taskState = <<>> /\ probeCount = <<>>

\* C13: each worker probes its chunk in ascending order from start, every
\* candidate at most once: the probed candidates are always a prefix of the
\* chunk, none of them accepted but the last; a returned password is the
\* first accepted candidate of the chunk, and None is returned only with
\* the whole chunk probed.
C13_WorkerScansAscending ==
    \A i \in Tasks :
        /\ \A n \in StartOf(i)..EndOf(i) :
              probeCount[n] =
                  IF n < num[i] \/ (n = num[i] /\ taskResult[i] # None)
                  THEN 1 ELSE 0
        /\ \A n \in StartOf(i)..(num[i] - 1) : Render(n) \notin probeOK
        /\ taskResult[i] # None =>
              /\ num[i] \in StartOf(i)..EndOf(i)
              /\ taskResult[i] = Render(num[i])
              /\ taskResult[i] \in probeOK
        /\ (taskState[i] = "returned" /\ taskResult[i] = None) =>
              \A n \in StartOf(i)..EndOf(i) : probeCount[n] = 1

\* A worker returned an accepted candidate after rejecting at least two.
C13_Witness ==
    \E i \in Tasks :
        /\ taskState[i] = "returned"
        /\ taskResult[i] # None
        /\ num[i] >= StartOf(i) + 2

\* C14: a probe that fails with RarWrongPassword, BadRarFile, another
\* exception or an empty entry list never ends the worker: no task returns
\* None before the end of its range, and after a failed probe the loop
\* variable is the next candidate.
C14_ProbeErrorsSkipCandidate ==
    \A i \in Tasks :
        /\ (taskState[i] = "returned" /\ taskResult[i] = None) => num[i] > EndOf(i)
        /\ (password[i] # None /\ taskResult[i] = None) =>
              num[i] = ParseInt(password[i]) + 1

\* A worker went through a chunk in which every kind of probe failure
\* occurred and returned None at its end.
C14_Witness ==
    \E i \in Tasks :
        /\ archive_valid
        /\ taskState[i] = "returned"
        /\ taskResult[i] = None
        /\ \A k \in DOMAIN FailureKinds :
              \E n \in StartOf(i)..EndOf(i) :
                  ProbeFailure(Render(n)) = FailureKinds[k]

\* C15: when the archive cannot be opened, a worker that returns reports
\* something other than not-found, and the run does not end Exhausted.
C15_OpenFailureReported ==
    ~archive_valid =>
        /\ \A i \in Tasks : taskState[i] = "returned" => taskResult[i] # None
        /\ outcome # "Exhausted"

\* C16: extract_rar_file is called only with a candidate a worker returned
\* after an accepting probe, and never twice with the same candidate.
C16_ConfirmationOncePerAccepted ==
    /\ \A k \in DOMAIN extractCalls :
          /\ extractCalls[k][1] \in probeOK
          /\ \E i \in Tasks : taskResult[i] = extractCalls[k][1]
    /\ \A k, l \in DOMAIN extractCalls :
          k # l => extractCalls[k][1] # extractCalls[l][1]

\* The confirmation ran and failed on one of two accepted candidates.
C16_Witness ==
    /\ Cardinality(probeOK) = 2
    /\ ConfirmationFailed
    /\ pc = "done"

\* C17: after a failed extract_rar_file the output location holds nothing
\* the attempt created.
C17_FailedExtractionLeavesNothing ==
    ConfirmationFailed => outputDir = "absent"

\* C18: the session a worker made its last probe read through holds the
\* password of the candidate probed, never an earlier one.
C18_SessionHoldsCandidate ==
    \A i \in Tasks : password[i] # None => sessionPw[i] = password[i]

\* A worker has made at least three probes.
C18_Witness ==
    \E i \in Tasks :
        /\ num[i] >= StartOf(i) + 3
        /\ sessionPw[i] = Render(num[i] - 1)

\* C19: from the call of extract_rar_file on, no worker of the pool runs.
C19_NoWorkerDuringConfirmation ==
    (pc = "confirm" \/ extractCalls # <<>>) =>
        \A i \in Tasks : taskState[i] # "running"

\* The confirmation is about to run after a worker was terminated mid-chunk.
C19_Witness ==
    /\ pc = "confirm"
    /\ \E i \in Tasks : taskState[i] = "terminated" /\ InRange(num[i], EndOf(i))

\* every candidate of the space was probed exactly once and the run reported
\* Exhausted and exited
ExhaustedAfterFullScan ==
    /\ pc = "exited"
    /\ outcome = "Exhausted"
    /\ returned = None
    /\ \A n \in 0..max_password : probeCount[n] = 1

\* C20: with an existing file, no probe-accepted candidate and no interrupt
\* (the runs of FairSpec), a fairly scheduled run terminates with outcome Exhausted,
\* every candidate of [0, max_password] probed exactly once.
C20_ExhaustiveRunTerminates == <>ExhaustedAfterFullScan

\* Such a run over three chunks has ended.
C20_Witness ==
    /\ ExhaustedAfterFullScan
    /\ probeOK = {}
    /\ Len(worker_args) = 3
    /\ max_password > 0

====
